---- MODULE Spec2Model ----
(***************************************************************************)
(* prfl: a profiler that wraps functions, records total time and self time *)
(* per name, and walks object graphs to wrap every function it reaches.    *)
(*                                                                         *)
(* The repository holds three revisions of src/prfl.js:                    *)
(*   "prfl"      src/src/prfl.js        (no try/finally, samples[name]||) *)
(*   "part_000"  src/unnamed/part_000   (try/finally, hasOwnProperty)      *)
(*   "part_001"  src/unnamed/part_001   (name check, constructing branch)  *)
(* The variable build says which revision is loaded; every operation is    *)
(* translated per revision where the revisions differ.                     *)
(***************************************************************************)
EXTENDS Integers, Sequences, FiniteSets, TLC

\* ---------------------------------------------------------------- bounds
MaxTime == 2
MaxCalls == 3
MaxDepth == 2
MaxWalks == 1
MaxStack == 8
MaxUses == 2

\* ------------------------------------------------------------- constants
Builds == {"prfl", "part_000", "part_001"}
FinallyBuilds == {"part_000", "part_001"}

\* names handed to wrapFunction; "hasOwnProperty" is also the name of a
\* property every plain object inherits from Object.prototype
Names == {"outer", "inner", "hasOwnProperty"}
ObjectPrototypeNames == {"hasOwnProperty"}

Times == 0..MaxTime
Errors == {"E1", "E2"}
TypeError == "TypeError"
Receivers == {"ctx", "sub"}
Args == {"a1", "a2"}
Values == {"prim", "obj"}

\* what a callable invoked with `new` may return besides: a function, null,
\* undefined
ReturnValues == Values \cup {"fn", "null", "undef"}

\* the first argument of wrapFunction: a string (the empty one included) or,
\* as in the test of the name check, a function
String(text) == [type |-> "string", text |-> text]
NameArgs == {String("outer"), String(""),
             [type |-> "function", text |-> "function () {}"]}

\* typeof of the second argument of wrapFunction
FuncArgs == {"function", "undefined"}

\* the clock readings of the runs that call the members of a walked graph
UseTimes == {0, MaxTime}

\* undefined + number, number - undefined, NaN + number: not a number
NaN == 0 - 1000

VARIABLES build, samples, totalTimesStack, lastIndex,
          wrapped, frames, ctl, err, calls, completed, c6shape, log,
          wrapError, noFunc, lastReport, reports,
          clock, getTime, captured, otherProfiler, applied,
          keysImpl, heap, heap0, wstack, seenObjects, enumerated,
          walkResult, walkReturn, walkRoot, walks, nextWid

callVars == <<samples, totalTimesStack, lastIndex, wrapped, frames, ctl,
              err, calls, completed, c6shape, log, wrapError, noFunc,
              lastReport, reports, clock, getTime, captured, otherProfiler>>
walkVars == <<keysImpl, heap, heap0, wstack, seenObjects, enumerated,
              walkResult, walkReturn, walkRoot, walks, nextWid>>
vars == <<build, applied, callVars, walkVars>>

\* ---------------------------------------------------------- JS numbers
Plus(a, b) == IF a = NaN \/ b = NaN THEN NaN ELSE a + b
Minus(a, b) == IF a = NaN \/ b = NaN THEN NaN ELSE a - b

RECURSIVE sum(_)
sum(iterable) ==
  IF iterable = <<>> THEN 0
  ELSE Plus(sum(SubSeq(iterable, 1, Len(iterable) - 1)),
            iterable[Len(iterable)])

\* ------------------------------------------------------------ Recorder
NoLog == [kind |-> "none", name |-> "none", start |-> 0, end |-> 0,
          kids |-> 0, recorded |-> FALSE, raised |-> "none",
          value |-> "none", outcome |-> "none", result |-> "none",
          recv |-> "none", thisSeen |-> "none",
          args |-> "none", argsSeen |-> "none", source |-> "none"]

\* typeof of the values a callable returns
TypeOf(v) ==
  CASE v \in {"obj", "null"} -> "object"
    [] v = "fn" -> "function"
    [] v = "undef" -> "undefined"
    [] OTHER -> "string"

\* the value is an object as the `new` operator decides it: an object or a
\* function, not null
IsObject(v) == v \in {"obj", "fn", "constructed", "fresh"}

\* `this instanceof wrapper`: the receiver's prototype chain holds
\* wrapper.prototype ("sub": an object that inherits from it, "fresh": the
\* object `new wrapper()` creates)
InstanceOfWrapper(recv) == recv \in {"sub", "fresh"}

\* `instance instanceof func`: only the object createObject(func.prototype)
\* made has func.prototype in its prototype chain; the object `new wrapper()`
\* creates inherits from wrapper.prototype, which no revision links to
\* func.prototype
InstanceOfFunc(v) == v = "constructed"

\* addSample raises a TypeError instead of appending:
\*  prfl: samples[name] finds the inherited Object.prototype member, which
\*        is truthy and has no totalTimes array;
\*  part_000, part_001: samples.hasOwnProperty is shadowed by the sample
\*        set stored under the name "hasOwnProperty", which is not callable
addSampleThrows(b, smp, name) ==
  IF b = "prfl"
  THEN name \notin DOMAIN smp /\ name \in ObjectPrototypeNames
  ELSE "hasOwnProperty" \in DOMAIN smp

addSamplePrepended(smp, name, totalTime, selfTime) ==
  LET functionSamples == IF name \in DOMAIN smp THEN smp[name]
                         ELSE [totalTimes |-> <<>>, selfTimes |-> <<>>]
      prepended == [totalTimes |-> <<totalTime>> \o functionSamples.totalTimes,
                    selfTimes |-> <<selfTime>> \o functionSamples.selfTimes]
  IN [n \in (DOMAIN smp) \cup {name} |-> IF n = name THEN prepended ELSE smp[n]]

addSample(smp, name, totalTime, selfTime) ==
  LET functionSamples == IF name \in DOMAIN smp THEN smp[name]
                         ELSE [totalTimes |-> <<>>, selfTimes |-> <<>>]
      appended == [totalTimes |-> Append(functionSamples.totalTimes, totalTime),
                   selfTimes |-> Append(functionSamples.selfTimes, selfTime)]
  IN [n \in (DOMAIN smp) \cup {name} |-> IF n = name THEN appended ELSE smp[n]]

\* totalTimesStack[lastIndex] += time; an index at or past the length
\* reads undefined, stores NaN and extends the array
stackAdd(stack, index, time) ==
  IF index + 1 <= Len(stack)
  THEN [stack EXCEPT ![index + 1] = Plus(@, time)]
  ELSE [i \in 1..(index + 1) |-> IF i <= Len(stack) THEN stack[i] ELSE NaN]

getReportThrows(b, smp) ==
  b \in FinallyBuilds /\ "hasOwnProperty" \in DOMAIN smp

getReport(smp) ==
  [name \in DOMAIN smp |->
     [calls |-> Len(smp[name].totalTimes),
      selfTime |-> sum(smp[name].selfTimes),
      totalTime |-> sum(smp[name].totalTimes)]]

\* ---------------------------------------------------------- Interceptor
\* no exported function was called yet
NoCall == [fn |-> "none", input |-> <<>>, outcome |-> "none",
           value |-> <<>>]

\* a second Profiler instance right after construction: its own samples
\* and totalTimesStack, and the activations of its wrappers
NoOther == [samples |-> <<>>, totalTimesStack |-> <<0>>, lastIndex |-> 0,
            frames |-> <<>>, inside |-> "none"]

\* no report was asked for yet
NoReport == [outcome |-> "none", value |-> <<>>, stamp |-> <<0, 0>>,
             repeated |-> FALSE]

InitRecorder ==
  /\ samples = <<>>
  /\ totalTimesStack = <<0>>
  /\ lastIndex = 0
  /\ wrapped = {}
  /\ frames = <<>>
  /\ ctl = "run"
  /\ err = "none"
  /\ calls = 0
  /\ completed = [n \in Names |-> 0]
  /\ c6shape = TRUE
  /\ log = NoLog
  /\ wrapError = "none"
  /\ noFunc = {}
  /\ lastReport = NoReport
  /\ reports = 0
  /\ clock = [reads |-> 0, now |-> 0]
  /\ getTime = "Date.now"
  /\ captured = <<>>
  /\ otherProfiler = NoOther
  /\ applied = NoCall

Depth == Len(frames)
Top == frames[Len(frames)]
Caller == SubSeq(frames, 1, Len(frames) - 1)

\* typeof name !== 'string': only part_001 looks at the name
wrapFunctionThrows(b, name) == b = "part_001" /\ name.type # "string"

\* wrapFunction(name, func): raises for a name part_001 rejects; otherwise
\* creates the wrapper, whatever func is, and touches no recorder state.
\* The wrapper records under the name as a property key (its string form).
wrapFunction(name, func) ==
  /\ ctl = "run"
  /\ walkResult # "running"
  /\ name.text \notin wrapped
  /\ IF wrapFunctionThrows(build, name)
     THEN /\ wrapError' = TypeError
          /\ UNCHANGED <<wrapped, noFunc, captured>>
     ELSE /\ wrapError' = "none"
          /\ wrapped' = wrapped \cup {name.text}
          /\ captured' = [n \in (DOMAIN captured) \cup {name.text} |->
                            IF n = name.text THEN getTime ELSE captured[n]]
          /\ noFunc' = IF func = "function" THEN noFunc
                       ELSE noFunc \cup {name.text}
  /\ UNCHANGED <<build, applied, lastReport, reports, clock, getTime, otherProfiler,
                 samples, totalTimesStack, lastIndex, frames, ctl,
                 err, calls, completed, c6shape, log, walkVars>>

timeSourceInstalled(cap, installed, name) == installed

\* the getTime a wrapper calls: the one wrapFunction read from the profiler
\* when it made the wrapper (var getTime = this.getTime)
timeSource(cap, installed, name) ==
  IF name \in DOMAIN cap THEN cap[name] ELSE installed

\* one call of the time source
tick(time) == [reads |-> clock.reads + 1, now |-> time]

\* the receiver the callable runs with
thisFor(b, recv) ==
  IF b = "part_001" /\ InstanceOfWrapper(recv) THEN "constructed" ELSE recv

\* the call pattern of the nested-time tests: "outer" is called from
\* unwrapped code only, every other wrapper directly from "outer" only
c6Conforms(name) ==
  \/ name = "outer" /\ frames = <<>>
  \/ name # "outer" /\ Depth = 1 /\ Top.name = "outer"

\* wrapper(): push a level, count it, read the start time, apply func;
\* a wrapper whose func is no function raises before it can call anything
enter(name, recv, args, start) ==
  /\ ctl = "run"
  /\ walkResult # "running"
  /\ IF frames = <<>> THEN TRUE ELSE Top.name \notin noFunc
  /\ calls < MaxCalls
  /\ Depth < MaxDepth
  /\ totalTimesStack' = Append(totalTimesStack, 0)
  /\ lastIndex' = lastIndex + 1
  /\ frames' = Append(frames, [name |-> name, start |-> start, kids |-> 0,
                               ctor |-> (build = "part_001"
                                         /\ InstanceOfWrapper(recv)),
                               asNew |-> (recv = "fresh")])
  /\ calls' = calls + 1
  /\ clock' = tick(start)
  /\ c6shape' = (c6shape /\ c6Conforms(name))
  /\ log' = [NoLog EXCEPT !.kind = "enter", !.name = name,
                          !.source = timeSource(captured, getTime, name),
                          !.recv = recv, !.thisSeen = thisFor(build, recv),
                          !.args = args, !.argsSeen = args]
  /\ UNCHANGED <<build, applied, lastReport, reports, getTime, captured, otherProfiler,
                 samples, wrapped, ctl, err, completed, wrapError,
                 noFunc, walkVars>>

\* a wrapper made by wrapFunction is called
wrapperEnter(name, recv, args, start) ==
  /\ name \in wrapped
  /\ enter(name, recv, args, start)

\* one more completed invocation under a name whose invocations are counted
counted(count, name) ==
  IF name \in DOMAIN count THEN [count EXCEPT ![name] = @ + 1] ELSE count

\* the frames after the top activation has left, its recorded total time
\* added to the direct caller's account
leave(total, recorded) ==
  IF Depth > 1 /\ recorded
  THEN [Caller EXCEPT ![Depth - 1].kids = @ + total]
  ELSE Caller

\* time = getTime() - start; addSample(name, time, time - stack.pop());
\* lastIndex -= 1; stack[lastIndex] += time
\* outcome/result say how the wrapper then leaves; for a `new` call the
\* observation keeps the instance the callable ran on
bracket(end, kind, raised, value, outcome, result) ==
  LET time == end - Top.start
      popped == totalTimesStack[Len(totalTimesStack)]
      rest == SubSeq(totalTimesStack, 1, Len(totalTimesStack) - 1)
      fails == addSampleThrows(build, samples, Top.name)
      base == [NoLog EXCEPT !.kind = kind, !.name = Top.name,
                            !.start = Top.start, !.end = end,
                            !.kids = Top.kids, !.raised = raised,
                            !.value = value,
                            !.source = timeSource(captured, getTime,
                                                  Top.name),
                            !.recv = IF Top.asNew THEN "fresh" ELSE "none",
                            !.thisSeen = IF Top.asNew
                                         THEN thisFor(build, "fresh")
                                         ELSE "none"]
  IN /\ completed' = counted(completed, Top.name)
     /\ clock' = tick(end)
     /\ IF fails
        THEN /\ totalTimesStack' = rest
             /\ UNCHANGED <<samples, lastIndex>>
             /\ frames' = leave(time, FALSE)
             /\ ctl' = "raise"
             /\ err' = TypeError
             /\ log' = [base EXCEPT !.outcome = "error", !.result = TypeError]
        ELSE /\ samples' = addSample(samples, Top.name, time, Minus(time, popped))
             /\ lastIndex' = lastIndex - 1
             /\ totalTimesStack' = stackAdd(rest, lastIndex - 1, time)
             /\ frames' = leave(time, TRUE)
             /\ ctl' = IF outcome = "error" THEN "raise" ELSE "run"
             /\ err' = IF outcome = "error" THEN result ELSE "none"
             /\ log' = [base EXCEPT !.recorded = TRUE, !.outcome = outcome,
                                    !.result = result]

\* the callable returns value; a wrapper invoked with `new` hands its
\* caller the object `new` created unless it returns an object itself
wrapperReturn(value, end) ==
  /\ ctl = "run"
  /\ frames # <<>>
  /\ Top.name \notin noFunc
  /\ LET returnValue == IF Top.ctor /\ TypeOf(value) # "object"
                        THEN "constructed" ELSE value
         received == IF Top.asNew /\ ~IsObject(returnValue)
                     THEN "fresh" ELSE returnValue
     IN bracket(end, "return", "none", value, "value", received)
  /\ UNCHANGED <<build, applied, lastReport, reports, getTime, captured, otherProfiler,
                 wrapped, calls, c6shape, wrapError, noFunc, walkVars>>

\* func.apply raised e: prfl has no handler and the rest of the wrapper is
\* skipped; part_000 and part_001 run the bracket in the finally block
unwind(e, end) ==
  /\ IF build = "prfl"
     THEN /\ frames' = Caller
          /\ ctl' = "raise"
          /\ err' = e
          /\ completed' = counted(completed, Top.name)
          /\ log' = [NoLog EXCEPT !.kind = "throw", !.name = Top.name,
                                  !.start = Top.start, !.kids = Top.kids,
                                  !.raised = e, !.outcome = "error",
                                  !.result = e]
          /\ UNCHANGED <<samples, totalTimesStack, lastIndex, clock>>
     ELSE bracket(end, "throw", e, "none", "error", e)
  /\ UNCHANGED <<build, applied, lastReport, reports, getTime, captured, otherProfiler,
                 wrapped, calls, c6shape, wrapError, noFunc, walkVars>>

\* the callable raises an error of its own
wrapperThrow(e, end) ==
  /\ ctl = "run"
  /\ frames # <<>>
  /\ Top.name \notin noFunc
  /\ unwind(e, end)

\* func.apply (in part_001's constructing branch func.prototype) on a func
\* that is undefined raises a TypeError
wrapperApplyRaises(end) ==
  /\ ctl = "run"
  /\ frames # <<>>
  /\ Top.name \in noFunc
  /\ unwind(TypeError, end)

\* the callable does not catch the error a wrapped call raised in it
wrapperPropagate(end) ==
  /\ ctl = "raise"
  /\ frames # <<>>
  /\ unwind(err, end)

\* the caller (a callable, or unwrapped code) catches the error
callerCatch ==
  /\ ctl = "raise"
  /\ ctl' = "run"
  /\ err' = "none"
  /\ UNCHANGED <<build, applied, lastReport, reports, clock, getTime, captured, otherProfiler,
                 samples, totalTimesStack, lastIndex, wrapped, frames,
                 calls, completed, c6shape, log, wrapError, noFunc, walkVars>>

\* ---------------------------------------------------------- GraphWalker
\* values: null, undefined, a string, a reference to an object or function
\* of the heap, a wrapper made by wrapFunction, a wrapper's prototype object
Null == [t |-> "null"]
Undefined == [t |-> "undefined"]
Primitive == [t |-> "prim"]
Boolean == [t |-> "boolean"]
Number == [t |-> "number"]
Ref(id) == [t |-> "ref", id |-> id]
Wrapper(wid, name, func) ==
  [t |-> "wrapper", wid |-> wid, name |-> name, func |-> func]
WrapperPrototype(wid) == [t |-> "wproto", wid |-> wid]

\* o1, o2: plain objects; f1: a function with the prototype object p1;
\* f2: a native function, which has no prototype and no own properties
ObjectIds == {"o1", "o2", "p1"}
FunctionIds == {"f1", "f2"}
Ids == ObjectIds \cup FunctionIds

typeof(v) ==
  CASE v.t = "ref" -> IF v.id \in FunctionIds THEN "function" ELSE "object"
    [] v.t = "wrapper" -> "function"
    [] v.t = "wproto" -> "object"
    [] v.t = "null" -> "object"
    [] v.t = "undefined" -> "undefined"
    [] v.t = "boolean" -> "boolean"
    [] v.t = "number" -> "number"
    [] OTHER -> "string"

\* object.prototype of a function value
prototypeOf(v) ==
  CASE v.t = "wrapper" -> WrapperPrototype(v.wid)
    [] v = Ref("f1") -> Ref("p1")
    [] OTHER -> Undefined

\* object.hasOwnProperty(key)
hasOwn(h, id, key) == key \in DOMAIN h[id].props

\* object[key]: the own property, or the one the prototype chain provides
RECURSIVE get(_, _, _)
get(h, id, key) ==
  IF hasOwn(h, id, key) THEN h[id].props[key]
  ELSE IF h[id].proto = "none" THEN Undefined
  ELSE get(h, h[id].proto, key)

\* object[key] = value: replaces the own property, or creates an own
\* enumerable one when key was inherited or absent
put(h, id, key, value) ==
  IF hasOwn(h, id, key)
  THEN [h EXCEPT ![id].props[key] = value]
  ELSE [h EXCEPT ![id].props = [k \in (DOMAIN @) \cup {key} |->
                                  IF k = key THEN value ELSE @[k]],
                 ![id].keys = Append(@, key)]

\* for (key in object): the enumerable names of the object, then those of
\* its prototype chain that are not shadowed
RECURSIVE forInNames(_, _, _)
forInNames(h, id, found) ==
  LET fresh == SelectSeq(h[id].keys,
                         LAMBDA k : \A i \in 1..Len(found) : found[i] # k)
      all == found \o fresh
  IN IF h[id].proto = "none" THEN all ELSE forInNames(h, h[id].proto, all)

forIn(h, v) == IF v.t = "ref" THEN forInNames(h, v.id, <<>>) ELSE <<>>

ownKeysInherited(h, v) == forIn(h, v)

\* Object.keys(object): the own enumerable property names, in enumeration
\* order; a wrapper and its prototype object have none
ownKeys(h, v) == IF v.t = "ref" THEN h[v.id].keys ELSE <<>>

\* the fallback keys(object) of part_001: for-in filtered by hasOwnProperty
keys(h, v) ==
  IF v.t = "ref"
  THEN SelectSeq(forIn(h, v), LAMBDA k : hasOwn(h, v.id, k))
  ELSE <<>>

\* value[key] as wrapObject's caller reads it: a wrapper is a new function
\* on which wrapFunction sets no property
propertyOf(h, v, key) ==
  IF v.t = "ref" THEN get(h, v.id, key) ELSE Undefined

\* Object.keys raises a TypeError for null and undefined; the fallback
\* keys() of part_001 raises it for everything whose typeof is not "object"
keysThrows(b, impl, v) ==
  IF b = "part_001" /\ impl = "keys"
  THEN v = Null \/ typeof(v) # "object"
  ELSE v.t \in {"null", "undefined"}

\* the object graphs wrapObject is applied to: o2 inherits from o1, and
\* f1.prototype carries the non-enumerable constructor every function's
\* prototype object has
Graphs ==
  { [o1 |-> [keys |-> <<"a", "b">>, props |-> [a |-> x1, b |-> x2],
             proto |-> "none"],
     o2 |-> [keys |-> <<"a">>, props |-> [a |-> x3], proto |-> "o1"],
     f1 |-> [keys |-> <<"a">>, props |-> [a |-> x4], proto |-> "none"],
     p1 |-> [keys |-> <<"a">>,
             props |-> [a |-> x5, constructor |-> Ref("f1")],
             proto |-> "none"],
     f2 |-> [keys |-> <<>>, props |-> <<>>, proto |-> "none"]] :
    x1 \in {Ref("o1"), Ref("o2"), Ref("f1"), Ref("f2")},
    x2 \in {Ref("o2"), Ref("f1"), Null, Primitive},
    x3 \in {Ref("o1"), Ref("f1"), Ref("f2"), Primitive},
    x4 \in {Ref("o2"), Ref("f1"), Ref("f2"), Primitive},
    x5 \in {Ref("f1"), Ref("f2"), Primitive} }

Roots == {Ref("o1"), Ref("f1"), Null, Undefined}

NoGraph ==
  [id \in Ids |-> [keys |-> <<>>, props |-> <<>>, proto |-> "none"]]

InitWalk ==
  /\ heap0 = heap
  /\ wstack = <<>>
  /\ seenObjects = <<>>
  /\ enumerated = <<>>
  /\ walkResult = "idle"
  /\ walkReturn = Undefined
  /\ walkRoot = Undefined
  /\ walks = 0
  /\ nextWid = 1

\* new Profiler(), then wrapFunction and calls of the wrappers
Init ==
  /\ build \in Builds
  /\ keysImpl = "Object.keys"
  /\ heap = NoGraph
  /\ InitRecorder
  /\ InitWalk

\* new Profiler(), then wrapObject on an object graph; Profiler.prototype.keys
\* of part_001 is Object.keys, or the fallback keys() where that is missing
InitGraph ==
  /\ build \in Builds
  /\ keysImpl \in IF build = "part_001" THEN {"Object.keys", "keys"}
                  ELSE {"Object.keys"}
  /\ heap \in Graphs
  /\ InitRecorder
  /\ InitWalk

WTop == wstack[Len(wstack)]

\* the walk after the running wrapObject call has returned value
walkReturns(value) ==
  /\ wstack' = SubSeq(wstack, 1, Len(wstack) - 1)
  /\ IF Len(wstack) = 1
     THEN walkResult' = "returned" /\ walkReturn' = value
     ELSE UNCHANGED <<walkResult, walkReturn>>

\* the walk after an error was raised: wrapObject catches nothing
walkRaises(e) ==
  /\ wstack' = <<>>
  /\ walkResult' = e
  /\ UNCHANGED walkReturn

\* the running call goes on at pc and calls this.wrapObject(objectName,
\* object, seenObjects); the engine raises a RangeError when the call stack
\* is exhausted
walkCalls(pc, i, objectName, object) ==
  IF Len(wstack) >= MaxStack
  THEN walkRaises("RangeError")
  ELSE /\ wstack' = Append([wstack EXCEPT ![Len(wstack)].pc = pc,
                                          ![Len(wstack)].i = i],
                           [object |-> object, objectName |-> objectName,
                            names |-> <<>>, i |-> 0, pc |-> "enter"])
       /\ UNCHANGED <<walkResult, walkReturn>>

seenNever(seenList, object) == FALSE

\* seenObjects.indexOf(object) !== -1
seen(seenList, object) ==
  \E k \in 1..Len(seenList) : seenList[k] = object

\* wrapObject(objectName, object) called by the user
wrapObject(objectName, object) ==
  /\ walkResult # "running"
  /\ frames = <<>>
  /\ ctl = "run"
  /\ walks' = walks + 1
  /\ wstack' = <<[object |-> object, objectName |-> objectName,
                  names |-> <<>>, i |-> 0, pc |-> "enter"]>>
  /\ seenObjects' = <<>>
  /\ enumerated' = <<>>
  /\ heap0' = heap
  /\ walkRoot' = object
  /\ walkResult' = "running"
  /\ UNCHANGED <<build, applied, callVars, keysImpl, heap, walkReturn, nextWid>>

\* the start of a wrapObject call: the null check of part_000 and part_001,
\* the seenObjects bookkeeping, the call on the prototype of a function
wrapObjectEnter ==
  /\ walkResult = "running"
  /\ WTop.pc = "enter"
  /\ LET object == WTop.object
     IN IF build \in FinallyBuilds /\ object.t \in {"null", "undefined"}
        THEN walkReturns(object) /\ UNCHANGED seenObjects
        ELSE IF Len(wstack) > 1 /\ seen(seenObjects, object)
        THEN walkReturns(object) /\ UNCHANGED seenObjects
        ELSE /\ seenObjects' = Append(seenObjects, object)
             /\ IF typeof(object) = "function"
                THEN walkCalls("keys", 0, WTop.objectName \o ".prototype",
                               prototypeOf(object))
                ELSE /\ wstack' = [wstack EXCEPT ![Len(wstack)].pc = "keys"]
                     /\ UNCHANGED <<walkResult, walkReturn>>
  /\ UNCHANGED <<build, applied, callVars, keysImpl, heap, heap0, enumerated,
                 walkRoot, walks, nextWid>>

\* var names = Object.keys(object)  /  this.keys(object)
wrapObjectKeys ==
  /\ walkResult = "running"
  /\ WTop.pc = "keys"
  /\ IF keysThrows(build, keysImpl, WTop.object)
     THEN walkRaises(TypeError) /\ UNCHANGED enumerated
     ELSE /\ wstack' = [wstack EXCEPT
                          ![Len(wstack)].names =
                             IF build = "part_001" /\ keysImpl = "keys"
                             THEN keys(heap, WTop.object)
                             ELSE ownKeys(heap, WTop.object),
                          ![Len(wstack)].i = 0,
                          ![Len(wstack)].pc = "loop"]
          /\ enumerated' = Append(enumerated, WTop.object)
          /\ UNCHANGED <<walkResult, walkReturn>>
  /\ UNCHANGED <<build, applied, callVars, keysImpl, heap, heap0, seenObjects,
                 walkRoot, walks, nextWid>>

wrapMethodSkipped(h, wid, objectName, object, methodName) == h

wrapMethodUnqualified(h, wid, objectName, object, methodName) ==
  put(h, object.id, methodName,
      Wrapper(wid, methodName, get(h, object.id, methodName)))

\* object[methodName] = this.wrapFunction(objectName + '.' + methodName,
\*                                        object[methodName])
wrapMethod(h, wid, objectName, object, methodName) ==
  put(h, object.id, methodName,
      Wrapper(wid, objectName \o "." \o methodName,
              get(h, object.id, methodName)))

\* one round of the loop over names, or the return after the last one
wrapObjectLoop ==
  /\ walkResult = "running"
  /\ WTop.pc = "loop"
  /\ IF WTop.i >= Len(WTop.names)
     THEN walkReturns(WTop.object) /\ UNCHANGED <<heap, nextWid>>
     ELSE LET key == WTop.names[WTop.i + 1]
              value == get(heap, WTop.object.id, key)
              childName == WTop.objectName \o "." \o key
          IN IF typeof(value) = "function"
             THEN /\ heap' = wrapMethod(heap, nextWid, WTop.objectName,
                                        WTop.object, key)
                  /\ nextWid' = nextWid + 1
                  /\ walkCalls("loop", WTop.i + 1, childName, value)
             ELSE IF typeof(value) = "object" /\ value # Null
             THEN /\ walkCalls("loop", WTop.i + 1, childName, value)
                  /\ UNCHANGED <<heap, nextWid>>
             ELSE /\ wstack' = [wstack EXCEPT ![Len(wstack)].i = WTop.i + 1]
                  /\ UNCHANGED <<heap, nextWid, walkResult, walkReturn>>
  /\ UNCHANGED <<build, applied, callVars, keysImpl, heap0, seenObjects, enumerated,
                 walkRoot, walks>>

WalkStep == wrapObjectEnter \/ wrapObjectKeys \/ wrapObjectLoop

NextGraph ==
  \/ \E object \in Roots : walks < MaxWalks /\ wrapObject("root", object)
  \/ wrapObjectEnter
  \/ wrapObjectKeys
  \/ wrapObjectLoop

\* the engine runs a started call to its end
SpecGraph == InitGraph /\ [][NextGraph]_vars /\ WF_vars(WalkStep)


Next ==
  \/ \E name \in Names : wrapFunction(String(name), "function")
  \/ \E name \in Names, recv \in Receivers, args \in Args, start \in Times :
       wrapperEnter(name, recv, args, start)
  \/ \E value \in Values, end \in Times : wrapperReturn(value, end)
  \/ \E e \in Errors, end \in Times : wrapperThrow(e, end)
  \/ \E end \in Times : wrapperPropagate(end)
  \/ callerCatch

Spec == Init /\ [][Next]_vars

\* ------------------------------------------- members of a walked graph
PropertyNames == {"a", "b"}

\* object[key](), where the property holds a wrapper that wrapObject put
\* around an original function: the wrapper runs as a method of the object
memberEnter(id, key, start) ==
  /\ hasOwn(heap, id, key)
  /\ heap[id].props[key].t = "wrapper"
  /\ heap[id].props[key].func.t = "ref"
  /\ calls < MaxUses
  /\ enter(heap[id].props[key].name, "ctx", "a1", start)

\* graphs with a diamond (f1 below o1.b and below o1.a.a), cycles through
\* f1 and members of f1.prototype
MemberGraphs ==
  {g \in Graphs : /\ g.o1.props.a = Ref("o2")
                  /\ g.o1.props.b = Ref("f1")
                  /\ g.o2.props.a \in {Ref("f1"), Ref("f2")}
                  /\ g.f1.props.a \in {Ref("o2"), Ref("f1")}
                  /\ g.p1.props.a = Ref("f2")}

\* the roots whose walk wraps members: an object and a function
MemberRoots == {Ref("o1"), Ref("f1")}

InitMembers ==
  /\ build \in Builds
  /\ keysImpl \in IF build = "part_001" THEN {"Object.keys", "keys"}
                  ELSE {"Object.keys"}
  /\ heap \in MemberGraphs
  /\ InitRecorder
  /\ InitWalk

NextMembers ==
  \/ \E object \in MemberRoots :
       walks < MaxWalks /\ calls = 0 /\ wrapObject("root", object)
  \/ wrapObjectEnter
  \/ wrapObjectKeys
  \/ wrapObjectLoop
  \/ \E id \in Ids, key \in PropertyNames, start \in UseTimes :
       memberEnter(id, key, start)
  \/ \E end \in UseTimes : wrapperReturn("prim", end)
  \/ \E end \in UseTimes : wrapperThrow("E1", end)
  \/ \E end \in UseTimes : wrapperPropagate(end)
  \/ callerCatch

\* the objects are wrapped first, then the program runs and calls the
\* members wrapObject wrapped
SpecMembers == InitMembers /\ [][NextMembers]_vars

\* ------------------------------------ wrapObject on an instrumented root
\* wrapObject(name, root) and then the same call once more
NextTwice ==
  \/ \E object \in MemberRoots :
       /\ walks < MaxWalks + 1
       /\ walks > 0 => object = walkRoot
       /\ wrapObject("root", object)
  \/ wrapObjectEnter
  \/ wrapObjectKeys
  \/ wrapObjectLoop

SpecTwice == InitMembers /\ [][NextTwice]_vars

\* ------------------------------------ a time source that never goes back
\* the timestamps a non-decreasing time source may return next
Later == {time \in Times : time >= clock.now}

NextClock ==
  \/ \E name \in Names : wrapFunction(String(name), "function")
  \/ \E name \in Names, start \in Later :
       wrapperEnter(name, "ctx", "a1", start)
  \/ \E end \in Later : wrapperReturn("prim", end)
  \/ \E end \in Later : wrapperThrow("E1", end)
  \/ \E end \in Later : wrapperPropagate(end)
  \/ callerCatch

SpecClock == Init /\ [][NextClock]_vars

\* ------------------------------------------- replacing profiler.getTime
TimeSources == {"Date.now", "mockTime"}

TimedNames == {"outer", "inner"}

\* profiler.getTime = source
replaceGetTime(source) ==
  /\ ctl = "run"
  /\ source # getTime
  /\ getTime' = source
  /\ UNCHANGED <<build, applied, samples, totalTimesStack, lastIndex, wrapped, frames,
                 ctl, err, calls, completed, c6shape, log, wrapError, noFunc,
                 lastReport, reports, clock, captured, otherProfiler,
                 walkVars>>

NextTime ==
  \/ \E name \in TimedNames : wrapFunction(String(name), "function")
  \/ \E source \in TimeSources : replaceGetTime(source)
  \/ \E name \in TimedNames, start \in UseTimes :
       calls < MaxUses /\ wrapperEnter(name, "ctx", "a1", start)
  \/ \E end \in UseTimes : wrapperReturn("prim", end)
  \/ \E end \in UseTimes : wrapperThrow("E1", end)
  \/ \E end \in UseTimes : wrapperPropagate(end)
  \/ callerCatch

\* wrappers are made and called while the time source is exchanged
SpecTime == Init /\ [][NextTime]_vars

\* -------------------------------------------- a second Profiler instance
OtherTop == otherProfiler.frames[Len(otherProfiler.frames)]

\* the innermost running wrapper is one of the second profiler: it was
\* entered when the first profiler's activations were the present ones
otherOnTop ==
  IF otherProfiler.frames = <<>> THEN FALSE ELSE OtherTop.at = Depth

stackSharedWithOther(stack, time) ==
  [stack EXCEPT ![Len(stack)] = Plus(@, time)]

\* the first profiler's totalTimesStack when a wrapper of the second has
\* ended: every instance has its own array (this.totalTimesStack = [0])
stackBesideOther(stack, time) == stack

\* a wrapper made by the second profiler is called: push, lastIndex += 1,
\* start = getTime()
otherEnter(name, start) ==
  /\ ctl = "run"
  /\ calls < MaxUses
  /\ Len(otherProfiler.frames) < MaxDepth
  /\ calls' = calls + 1
  /\ clock' = tick(start)
  /\ otherProfiler' =
       [otherProfiler EXCEPT
          !.totalTimesStack = Append(@, 0),
          !.lastIndex = @ + 1,
          !.frames = Append(@, [name |-> name, start |-> start,
                                at |-> Depth])]
  /\ UNCHANGED <<build, applied, samples, totalTimesStack, lastIndex, wrapped, frames,
                 ctl, err, completed, c6shape, log, wrapError, noFunc,
                 lastReport, reports, getTime, captured, walkVars>>

\* the callable of the second profiler's wrapper ends, with a value or with
\* the error e: the wrapper's bracket on the second profiler's own state
\* (src/src/prfl.js skips it for an error)
otherLeave(e, end) ==
  /\ otherOnTop
  /\ LET o == otherProfiler
         time == end - OtherTop.start
         popped == o.totalTimesStack[Len(o.totalTimesStack)]
         rest == SubSeq(o.totalTimesStack, 1, Len(o.totalTimesStack) - 1)
         callers == SubSeq(o.frames, 1, Len(o.frames) - 1)
         fails == addSampleThrows(build, o.samples, OtherTop.name)
     IN IF e # "none" /\ build = "prfl"
        THEN /\ otherProfiler' = [o EXCEPT !.frames = callers]
             /\ ctl' = "raise"
             /\ err' = e
             /\ UNCHANGED <<clock, totalTimesStack>>
        ELSE /\ clock' = tick(end)
             /\ totalTimesStack' = stackBesideOther(totalTimesStack, time)
             /\ IF fails
                THEN /\ otherProfiler' =
                          [o EXCEPT !.totalTimesStack = rest,
                                    !.frames = callers]
                     /\ ctl' = "raise"
                     /\ err' = TypeError
                ELSE /\ otherProfiler' =
                          [o EXCEPT
                             !.samples = addSample(o.samples, OtherTop.name,
                                                   time, Minus(time, popped)),
                             !.lastIndex = o.lastIndex - 1,
                             !.totalTimesStack =
                                stackAdd(rest, o.lastIndex - 1, time),
                             !.frames = callers,
                             !.inside = IF frames = <<>> THEN "none"
                                        ELSE Top.name]
                     /\ ctl' = IF e = "none" THEN "run" ELSE "raise"
                     /\ err' = e
  /\ UNCHANGED <<build, applied, samples, lastIndex, wrapped, frames, calls,
                 completed, c6shape, log, wrapError, noFunc, lastReport,
                 reports, getTime, captured, walkVars>>

otherReturn(end) == ctl = "run" /\ otherLeave("none", end)

otherThrow(e, end) == ctl = "run" /\ otherLeave(e, end)

otherPropagate(end) == ctl = "raise" /\ otherLeave(err, end)

NextOther ==
  \/ \E name \in TimedNames : wrapFunction(String(name), "function")
  \/ \E name \in TimedNames, start \in UseTimes :
       calls < MaxUses /\ wrapperEnter(name, "ctx", "a1", start)
  \/ \E end \in UseTimes : ~otherOnTop /\ wrapperReturn("prim", end)
  \/ \E end \in UseTimes : ~otherOnTop /\ wrapperThrow("E1", end)
  \/ \E end \in UseTimes : ~otherOnTop /\ wrapperPropagate(end)
  \/ callerCatch
  \/ \E name \in TimedNames, start \in UseTimes : otherEnter(name, start)
  \/ \E end \in UseTimes : otherReturn(end)
  \/ \E end \in UseTimes : otherThrow("E1", end)
  \/ \E end \in UseTimes : otherPropagate(end)

\* wrappers of two profilers call each other
SpecOther == Init /\ [][NextOther]_vars

\* ------------------------------------ the exported keys and construct
\* object.hasOwnProperty is Object.prototype's unless the object or its
\* prototype chain has a property of that name
hasOwnPropertyIsNative(h, id) == get(h, id, "hasOwnProperty") = Undefined

\* keys(object) raises: the type test at its start, or the call of
\* object.hasOwnProperty(key) in the loop when the property found under
\* that name is not callable
keysRaises(h, v) ==
  \/ keysThrows("part_001", "keys", v)
  \/ /\ v.t = "ref"
     /\ forIn(h, v) # <<>>
     /\ ~hasOwnPropertyIsNative(h, v.id)

keysCall(v) ==
  /\ applied' = [fn |-> "keys", input |-> v,
                 outcome |-> IF keysRaises(heap, v) THEN TypeError
                             ELSE "value",
                 value |-> IF keysRaises(heap, v) THEN <<>>
                           ELSE keys(heap, v)]
  /\ UNCHANGED <<build, callVars, walkVars>>

\* createObject(base): a new object whose prototype is base
createObject(base) == [instance |-> "created", proto |-> base]

\* construct(constructor, args): the invocations of constructor it makes,
\* each with its mode, receiver and arguments, and the object it returns
construct(constructor, args) ==
  LET object == createObject(constructor \o ".prototype")
      fresh == [instance |-> "fresh", proto |-> constructor \o ".prototype"]
  IN [invocations |-> <<[mode |-> "apply", this |-> object, args |-> args],
                        [mode |-> "new", this |-> fresh, args |-> <<>>]>>,
      returned |-> fresh]

constructCall(constructor, args) ==
  /\ applied' = [fn |-> "construct",
                 input |-> [constructor |-> constructor, args |-> args],
                 outcome |-> "value",
                 value |-> construct(constructor, args)]
  /\ UNCHANGED <<build, callVars, walkVars>>

\* what the tests pass to keys(), and objects of the graphs
KeysArgs == {Null, Undefined, Boolean, Number, Primitive,
             Ref("o1"), Ref("o2"), Ref("p1")}

ConstructArgs == {<<>>, <<"a">>, <<"a", "b">>}

\* the object graphs, and graphs in which o1 has an own enumerable property
\* named hasOwnProperty
PureGraphs ==
  Graphs \cup
    {[g EXCEPT !.o1 = [keys |-> <<"a", "b", "hasOwnProperty">>,
                       props |-> [a |-> g.o1.props.a, b |-> g.o1.props.b,
                                  hasOwnProperty |-> Primitive],
                       proto |-> "none"]] : g \in MemberGraphs}

InitPure ==
  /\ build = "part_001"
  /\ keysImpl = "keys"
  /\ heap \in PureGraphs
  /\ InitRecorder
  /\ InitWalk

NextPure ==
  \/ \E v \in KeysArgs : keysCall(v)
  \/ \E args \in ConstructArgs : constructCall("Constructor", args)

SpecPure == InitPure /\ [][NextPure]_vars

\* --------------------------------------------- wrapMethod called directly
\* profiler.wrapMethod(objectName, object, methodName) on a property that
\* holds an original function, before the program calls anything; part_001
\* has no wrapMethod (wrapObject assigns the wrapper itself at line 151), so
\* there the call of the undefined member raises a TypeError
wrapMethodCall(objectName, id, methodName) ==
  /\ ctl = "run"
  /\ calls = 0
  /\ hasOwn(heap, id, methodName)
  /\ heap[id].props[methodName].t = "ref"
  /\ typeof(heap[id].props[methodName]) = "function"
  /\ IF build = "part_001"
     THEN /\ wrapError' = TypeError
          /\ UNCHANGED <<heap, nextWid>>
     ELSE /\ heap' = wrapMethod(heap, nextWid, objectName, Ref(id),
                                methodName)
          /\ nextWid' = nextWid + 1
          /\ UNCHANGED wrapError
  /\ UNCHANGED <<build, applied, lastReport, reports, samples, totalTimesStack,
                 clock, getTime, captured, otherProfiler,
                 lastIndex, wrapped, frames, ctl, err, calls, completed,
                 c6shape, log, noFunc, keysImpl, heap0, wstack, seenObjects,
                 enumerated, walkResult, walkReturn, walkRoot, walks>>

NextMethod ==
  \/ \E id \in Ids, key \in PropertyNames : wrapMethodCall("owner", id, key)
  \/ \E id \in Ids, key \in PropertyNames, start \in UseTimes :
       memberEnter(id, key, start)
  \/ \E end \in UseTimes : wrapperReturn("prim", end)
  \/ \E end \in UseTimes : wrapperThrow("E1", end)
  \/ \E end \in UseTimes : wrapperPropagate(end)
  \/ callerCatch

\* methods are wrapped one by one, then the program calls them
SpecMethod == InitMembers /\ [][NextMethod]_vars

\* ------------------------------------- wrapFunction on any arguments
NextArgs ==
  \/ \E name \in NameArgs, func \in FuncArgs : wrapFunction(name, func)
  \/ \E name \in NameArgs, recv \in Receivers \cup {"fresh"},
        start \in UseTimes :
       wrapperEnter(name.text, recv, "a1", start)
  \/ \E value \in ReturnValues, end \in UseTimes : wrapperReturn(value, end)
  \/ \E end \in UseTimes : wrapperThrow("E1", end)
  \/ \E end \in UseTimes : wrapperApplyRaises(end)
  \/ \E end \in UseTimes : wrapperPropagate(end)
  \/ callerCatch

\* wrapFunction with valid and invalid arguments, then plain calls and
\* `new` calls of the wrappers
SpecArgs == Init /\ [][NextArgs]_vars

\* ------------------------------------------- getReport and addSample
MaxReports == 2

ReportNames == {"outer", "hasOwnProperty"}

\* times a caller of addSample may pass: nothing checks their sign
SampleTimes == {0 - MaxTime, 0, MaxTime}

samplesCleared(smp) == <<>>

\* the sample store once getReport ended: its loop only reads samples
samplesAfterGetReport(smp) == smp

\* profiler.getReport(), from unwrapped code or from a running callable;
\* lastReport keeps what the caller got, where the program stood (stamp) and
\* whether the report before it was taken at the same point
getReportCall ==
  /\ ctl = "run"
  /\ reports < MaxReports
  /\ reports' = reports + 1
  /\ LET raises == getReportThrows(build, samples)
         stamp == <<calls, Depth>>
     IN /\ lastReport' =
             [outcome |-> IF raises THEN "error" ELSE "report",
              value |-> IF raises THEN <<>> ELSE getReport(samples),
              stamp |-> stamp,
              repeated |-> lastReport.outcome # "none"
                           /\ lastReport.stamp = stamp]
        /\ ctl' = IF raises THEN "raise" ELSE ctl
        /\ err' = IF raises THEN TypeError ELSE err
  /\ samples' = samplesAfterGetReport(samples)
  /\ UNCHANGED <<build, applied, totalTimesStack, lastIndex, wrapped, frames, calls,
                 clock, getTime, captured, otherProfiler,
                 completed, c6shape, log, wrapError, noFunc, walkVars>>

\* profiler.addSample(name, totalTime, selfTime) called directly
addSampleCall(name, totalTime, selfTime) ==
  /\ ctl = "run"
  /\ calls < MaxUses
  /\ calls' = calls + 1
  /\ IF addSampleThrows(build, samples, name)
     THEN /\ ctl' = "raise"
          /\ err' = TypeError
          /\ UNCHANGED samples
     ELSE /\ samples' = addSample(samples, name, totalTime, selfTime)
          /\ UNCHANGED <<ctl, err>>
  /\ UNCHANGED <<build, applied, lastReport, reports, totalTimesStack, lastIndex,
                 clock, getTime, captured, otherProfiler,
                 wrapped, frames, completed, c6shape, log, wrapError, noFunc,
                 walkVars>>

NextReport ==
  \/ \E name \in ReportNames : wrapFunction(String(name), "function")
  \/ \E name \in ReportNames, start \in UseTimes :
       calls < MaxUses /\ wrapperEnter(name, "ctx", "a1", start)
  \/ \E end \in UseTimes : wrapperReturn("prim", end)
  \/ \E end \in UseTimes : wrapperThrow("E1", end)
  \/ \E end \in UseTimes : wrapperPropagate(end)
  \/ callerCatch
  \/ getReportCall
  \/ \E name \in ReportNames, totalTime \in SampleTimes,
        selfTime \in SampleTimes :
       addSampleCall(name, totalTime, selfTime)

\* wrapped calls, direct addSample calls and reports in any order
SpecReport == Init /\ [][NextReport]_vars

\* ------------------------------------------------------------- claims
NoCallExecuting == frames = <<>>

sampleCount(smp, name) ==
  IF name \in DOMAIN smp THEN Len(smp[name].totalTimes) ELSE 0

\* number === number as JS decides it: NaN equals nothing
jsEqual(a, b) == a # NaN /\ b # NaN /\ a = b

RECURSIVE sumTotalTimes(_, _)
sumTotalTimes(report, names) ==
  IF names = {} THEN 0
  ELSE LET n == CHOOSE m \in names : TRUE
       IN Plus(report[n].totalTime, sumTotalTimes(report, names \ {n}))

\* C1: when the wrapped callable throws, the activation the error leaves
\* appends exactly one sample under its own name before the error reaches
\* the wrapper's caller.
C1_ThrowAppendsOneSample ==
  [][(log'.kind = "throw" /\ Len(frames') < Len(frames))
       => sampleCount(samples', Top.name) = sampleCount(samples, Top.name) + 1]_vars

\* C2: whenever no wrapped call is executing, totalTimesStack has exactly
\* one entry and lastIndex is 0.
C2_StackRestoredWhenIdle ==
  NoCallExecuting => (Len(totalTimesStack) = 1 /\ lastIndex = 0)

\* C3: the sample recorded for a completed invocation has totalTime = end
\* timestamp - start timestamp and selfTime = totalTime - the total times
\* of the wrapped calls made directly during that invocation.
C3_SampleIsTotalAndSelf ==
  log.recorded =>
    LET s == samples[log.name]
        total == s.totalTimes[Len(s.totalTimes)]
        self == s.selfTimes[Len(s.selfTimes)]
    IN /\ total = log.end - log.start
       /\ self = total - log.kids

\* C4: when the wrapped callable throws, the wrapper's caller observes
\* exactly the error the callable raised.
C4_ErrorPassesUnchanged ==
  log.kind = "throw" => (log.outcome = "error" /\ log.result = log.raised)

\* C5: for each name totalTimes and selfTimes have the same length, the
\* number of invocations under that name that have completed (by return or
\* by throw); a name with no completed invocation is absent from samples.
C5_SampleCountIsCompletedCount ==
  \A n \in Names :
    IF completed[n] = 0
    THEN n \notin DOMAIN samples
    ELSE /\ n \in DOMAIN samples
         /\ Len(samples[n].totalTimes) = completed[n]
         /\ Len(samples[n].selfTimes) = completed[n]

\* C6: if the wrapped callables other than outer are invoked only directly
\* from inside invocations of outer, and outer from unwrapped code only,
\* then report[outer].totalTime = report[outer].selfTime + the sum of the
\* other entries' totalTime, exactly.
C6_OuterTotalIsSelfPlusInner ==
  (c6shape /\ NoCallExecuting /\ "outer" \in DOMAIN samples
     /\ ~getReportThrows(build, samples))
  => LET report == getReport(samples)
     IN jsEqual(report["outer"].totalTime,
                Plus(report["outer"].selfTime,
                     sumTotalTimes(report, (DOMAIN report) \ {"outer"})))

\* C7: a plain call of a wrapper invokes the callable with the receiver and
\* the arguments the wrapper received, and the wrapper returns exactly the
\* value the callable returned.
C7_PlainCallIsTransparent ==
  /\ log.kind = "enter" => (log.thisSeen = log.recv /\ log.argsSeen = log.args)
  /\ log.kind = "return" => (log.outcome = "value" /\ log.result = log.value)

\* C8: at every point totalTimesStack has 1 + (number of executing wrapped
\* activations) entries and lastIndex = length - 1.
C8_StackTracksActivations ==
  /\ Len(totalTimesStack) = 1 + Depth
  /\ lastIndex = Len(totalTimesStack) - 1

\* the objects and functions the properties of id refer to, and the
\* prototype object of a function
enumerableNames(h, id) == {h[id].keys[i] : i \in 1..Len(h[id].keys)}

successors(h, id) ==
  {h[id].props[k].id : k \in {j \in enumerableNames(h, id) : h[id].props[j].t = "ref"}}
    \cup (IF prototypeOf(Ref(id)).t = "ref" THEN {prototypeOf(Ref(id)).id} ELSE {})

RECURSIVE closure(_, _)
closure(h, ids) ==
  LET more == ids \cup UNION {successors(h, id) : id \in ids}
  IN IF more = ids THEN ids ELSE closure(h, more)

\* everything reachable from root over object-valued properties,
\* function-valued properties and function prototype objects
reachable(h, root) == IF root.t = "ref" THEN closure(h, {root.id}) ELSE {}

noDuplicates(list) ==
  \A i, j \in 1..Len(list) : list[i] = list[j] => i = j

\* C9: wrapObject ends on every object graph, cyclic ones included, without
\* exhausting the call stack, and within one top-level call it enumerates
\* the keys of each object or function at most once.
C9_WalkEndsAndVisitsOnce ==
  /\ [](walkResult # "RangeError" /\ noDuplicates(enumerated))
  /\ (walkResult = "running" ~> walkResult # "running")

C9_Witness ==
  /\ walkResult = "returned"
  /\ walkRoot = Ref("o1")
  /\ heap0["o1"].props["a"] = Ref("o1")
  /\ heap0["o1"].props["b"] = Ref("f1")
  /\ heap0["f1"].props["a"] = Ref("o2")
  /\ heap0["o2"].props["a"] = Ref("f1")
  /\ heap0["p1"].props["a"] = Ref("f1")
  /\ Len(enumerated) = 4

\* C10: after wrapObject returns, every own enumerable property that held a
\* function, on every object or function reachable from the root, holds a
\* wrapper of that function.
C10_ReachableFunctionsWrapped ==
  walkResult = "returned" =>
    \A id \in reachable(heap0, walkRoot) :
      \A key \in enumerableNames(heap0, id) :
        typeof(heap0[id].props[key]) = "function" =>
          /\ heap[id].props[key].t = "wrapper"
          /\ heap[id].props[key].func = heap0[id].props[key]

C10_Witness ==
  /\ walkResult = "returned"
  /\ walkRoot = Ref("o1")
  /\ heap0["o1"].props["a"] = Ref("o2")
  /\ heap0["o2"].props["a"] = Ref("f1")
  /\ heap0["p1"].props["a"] = Ref("f2")
  /\ heap["o2"].props["a"].t = "wrapper"
  /\ heap["p1"].props["a"].t = "wrapper"
  /\ heap["p1"].props["a"].func = Ref("f2")

\* a top-level wrapObject call has ended, by return or by an error
walkEnded == walkResult \notin {"idle", "running"}

\* C11: wrapObject(name, root) returns the very root it was given, for every
\* kind of root: object, function, null or undefined.
C11_ReturnsTheRoot ==
  walkEnded => (walkResult = "returned" /\ walkReturn = walkRoot)

\* C12: wrapObject(name, null) and wrapObject(name, undefined) do not raise,
\* wrap nothing, leave the recorder state unchanged and return the input.
C12_NullRootIsNoOp ==
  (walkEnded /\ walkRoot \in {Null, Undefined}) =>
    /\ walkResult = "returned"
    /\ walkReturn = walkRoot
    /\ heap = heap0
    /\ samples = <<>>
    /\ totalTimesStack = <<0>>
    /\ lastIndex = 0

\* the wrappers the properties of the heap hold
wrappersIn(h) ==
  UNION {{h[id].props[k] : k \in {j \in DOMAIN h[id].props :
                                    h[id].props[j].t = "wrapper"}} : id \in Ids}

\* C13: when the root passed to wrapObject(name, root) is callable, the root
\* itself is wrapped under name: a wrapper of root registered as name is
\* returned or placed where the root was.
C13_CallableRootIsWrapped ==
  (walkResult = "returned" /\ typeof(walkRoot) = "function") =>
    \E w \in wrappersIn(heap) \cup {walkReturn} :
      w.t = "wrapper" /\ w.name = "root" /\ w.func = walkRoot

\* C15: wrapObject changes nothing except own enumerable function-valued
\* properties: no property is added or removed, no prototype changes, and a
\* property whose value changed was own, enumerable and held a function.
C15_OnlyOwnEnumerableFunctionsChange ==
  \A id \in Ids :
    /\ DOMAIN heap[id].props = DOMAIN heap0[id].props
    /\ heap[id].keys = heap0[id].keys
    /\ heap[id].proto = heap0[id].proto
    /\ \A key \in DOMAIN heap0[id].props :
         heap[id].props[key] # heap0[id].props[key] =>
           /\ key \in enumerableNames(heap0, id)
           /\ typeof(heap0[id].props[key]) = "function"

C15_Witness ==
  /\ walkResult = "returned"
  /\ walkRoot = Ref("o1")
  /\ heap0["o1"].props["a"] = Ref("o2")
  /\ heap0["o1"].props["b"] = Ref("f1")
  /\ heap0["o2"].props["a"] = Primitive
  /\ heap0["p1"].props["a"] = Primitive
  /\ heap["o1"].props["b"].t = "wrapper"
  /\ heap["o2"].props["a"] = Primitive
  /\ DOMAIN heap["o2"].props = {"a"}
  /\ heap["p1"].props["constructor"] = Ref("f1")
  /\ \E i \in 1..Len(enumerated) : enumerated[i] = Ref("o2")
  /\ \E i \in 1..Len(enumerated) : enumerated[i] = Ref("p1")

\* C17: wrapFunction(name, callable) raises before any wrapper is created
\* whenever name is not a string: no wrapper exists under such a name.
C17_NonStringNameRejected ==
  \A name \in NameArgs : name.type # "string" => name.text \notin wrapped

\* C18: wrapFunction raises at wrap time whenever its second argument is
\* not a function: no wrapper exists around something that is no function.
C18_NonFunctionRejected == noFunc = {}

\* C19: wrapFunction raises when name is the empty string, before any
\* wrapper is created.
C19_EmptyNameRejected == "" \notin wrapped

\* C20: a wrapper invoked with `new` hands its caller the callable's return
\* value if and only if that value is an object (a function included, null
\* not), and otherwise the newly constructed instance the callable ran on.
C20_NewReturnsObjectOrInstance ==
  (log.kind = "return" /\ log.recv = "fresh") =>
    log.result = IF IsObject(log.value) THEN log.value ELSE log.thisSeen

\* the pairs <<id, name>> such that name spells a path of at most n steps
\* from the value v, itself called name, to the object or function id: a
\* step appends '.' and an enumerable property name, or '.prototype'
RECURSIVE pathNames(_, _, _, _)
pathNames(h, v, name, n) ==
  IF v.t # "ref" THEN {}
  ELSE {<<v.id, name>>} \cup
       (IF n = 0 THEN {}
        ELSE UNION ({pathNames(h, h[v.id].props[k], name \o "." \o k, n - 1) :
                       k \in enumerableNames(h, v.id)}
                    \cup {pathNames(h, prototypeOf(v), name \o ".prototype",
                                    n - 1)}))

\* every property replaced during the running or last wrapObject call holds
\* a wrapper registered under the path of its object plus '.' plus its key
membersNamedByPath ==
  LET paths == pathNames(heap0, walkRoot, "root", Cardinality(Ids))
  IN \A id \in Ids : \A key \in DOMAIN heap[id].props :
       LET w == heap[id].props[key]
       IN w # heap0[id].props[key] =>
            /\ w.t = "wrapper"
            /\ \E p \in paths : p[1] = id /\ w.name = p[2] \o "." \o key
            /\ Ref(id) = walkRoot => w.name = "root." \o key
            /\ (typeof(walkRoot) = "function" /\ Ref(id) = prototypeOf(walkRoot))
                 => w.name = "root.prototype." \o key

\* the activation that leaves was entered through a wrapper the heap holds
\* under the activation's name, and it changes the samples of no other name
recordsUnderOwnName ==
  Len(frames') < Len(frames) =>
    /\ \E w \in wrappersIn(heap) : w.name = Top.name
    /\ \A n \in DOMAIN samples' :
         n # Top.name => (n \in DOMAIN samples /\ samples'[n] = samples[n])
    /\ log'.recorded =>
         sampleCount(samples', Top.name) = sampleCount(samples, Top.name) + 1

\* C14: wrapObject registers each wrapped property under its path from the
\* root, name + '.' + key, and name + '.prototype.' + key for a member of a
\* function's prototype object; invoking the wrapped member records its
\* samples under exactly that name.
C14_MembersNamedByPath ==
  [](membersNamedByPath) /\ [][recordsUnderOwnName]_vars

C14_Witness ==
  /\ walkResult = "returned"
  /\ walkRoot = Ref("f1")
  /\ heap0["f1"].props["a"] = Ref("f1")
  /\ heap["f1"].props["a"].t = "wrapper"
  /\ heap["f1"].props["a"].name = "root.a"
  /\ heap["p1"].props["a"].t = "wrapper"
  /\ heap["p1"].props["a"].name = "root.prototype.a"
  /\ log.kind = "return"
  /\ log.name = "root.prototype.a"
  /\ log.recorded
  /\ DOMAIN samples = {"root.prototype.a"}
  /\ Len(samples["root.prototype.a"].totalTimes) = 1

\* every property either holds what it held when the running or last
\* wrapObject call began, or a wrapper directly around that value
replacedAtMostOnce ==
  \A id \in Ids : \A key \in DOMAIN heap[id].props :
    LET w == heap[id].props[key]
    IN w # heap0[id].props[key] =>
         (w.t = "wrapper" /\ w.func = heap0[id].props[key])

\* an invocation of a wrapped member that ends has recorded one sample
oneSamplePerInvocation ==
  Len(frames') < Len(frames) =>
    sampleCount(samples', Top.name) = sampleCount(samples, Top.name) + 1

\* C16: within one top-level wrapObject call each property is replaced at
\* most once, by a wrapper directly around the original callable, cycles and
\* diamonds included; so one invocation of a wrapped member records exactly
\* one sample.
C16_WrappedOnceRecordedOnce ==
  [](replacedAtMostOnce) /\ [][oneSamplePerInvocation]_vars

\* the last observation is the return of a `new` call whose callable
\* returned a non-object
newCallReturnedNonObject ==
  log.kind = "return" /\ log.recv = "fresh" /\ ~IsObject(log.value)

\* C21: when a wrapper is invoked with `new` and the callable returns a
\* non-object, the caller receives an instance of the original callable,
\* the very object the callable ran on, and the callable got the wrapper's
\* arguments.
C21_NewYieldsInstanceOfOriginal ==
  /\ newCallReturnedNonObject =>
       (InstanceOfFunc(log.result) /\ log.thisSeen = log.result)
  /\ (log.kind = "enter" /\ log.recv = "fresh") => log.argsSeen = log.args

\* C22: when a wrapper is invoked with `new` and the callable returns a
\* non-object, the instance the caller receives is an instance of the
\* wrapper function.
C22_NewYieldsInstanceOfWrapper ==
  newCallReturnedNonObject => InstanceOfWrapper(log.result)

\* C23: every own property of the original callable is reachable under the
\* same key on the wrapper that replaces it in a property.
C23_WrapperExposesProperties ==
  walkResult = "returned" =>
    \A w \in wrappersIn(heap) :
      w.func.t = "ref" =>
        \A key \in DOMAIN heap[w.func.id].props :
          propertyOf(heap, w, key) = heap[w.func.id].props[key]

\* C25: any string may be a name, names of properties inherited from
\* Object.prototype included: an invocation under such a name that returns
\* records its sample and hands the value to its caller, the first time and
\* every later time.
C25_InheritedNamesRecord ==
  (log.kind = "return" /\ log.name \in ObjectPrototypeNames) =>
    (log.recorded /\ log.outcome = "value")

\* C29: wrapObject completes without raising when the traversal reaches a
\* callable without prototype object and own properties, and the property
\* holding that callable is replaced by a wrapper of it.
C29_NativeFunctionWrapped ==
  (walkEnded /\ "f2" \in reachable(heap0, walkRoot)) =>
    /\ walkResult = "returned"
    /\ \A id \in reachable(heap0, walkRoot) :
         \A key \in enumerableNames(heap0, id) :
           heap0[id].props[key] = Ref("f2") =>
             (heap[id].props[key].t = "wrapper"
              /\ heap[id].props[key].func = Ref("f2"))

\* the sum of a list of times, first element first
RECURSIVE total(_)
total(times) ==
  IF times = <<>> THEN 0 ELSE Plus(Head(times), total(Tail(times)))

timesOf(smp, name) ==
  IF name \in DOMAIN smp THEN smp[name]
  ELSE [totalTimes |-> <<>>, selfTimes |-> <<>>]

isPrefix(a, b) == Len(a) <= Len(b) /\ SubSeq(b, 1, Len(a)) = a

\* C24: getReport returns one entry for exactly the names in the sample
\* store, with calls the number of recorded totalTimes, selfTime the sum of
\* the recorded selfTimes and totalTime the sum of the recorded totalTimes.
C24_ReportAggregatesSamples ==
  [][reports' = reports + 1 =>
       /\ lastReport'.outcome = "report"
       /\ DOMAIN lastReport'.value = DOMAIN samples
       /\ \A name \in DOMAIN samples :
            /\ lastReport'.value[name].calls = Len(samples[name].totalTimes)
            /\ lastReport'.value[name].selfTime
                 = total(samples[name].selfTimes)
            /\ lastReport'.value[name].totalTime
                 = total(samples[name].totalTimes)]_vars

\* C26: addSample(name, totalTime, selfTime) creates the sample set of the
\* name if there is none, appends totalTime and selfTime as given (zero and
\* negative values too) and changes neither the sample sets of other names
\* nor the nesting stack.
C26_AddSampleAppendsVerbatim ==
  [][\A name \in ReportNames, totalTime \in SampleTimes,
        selfTime \in SampleTimes :
       addSampleCall(name, totalTime, selfTime) =>
         /\ DOMAIN samples' = (DOMAIN samples) \cup {name}
         /\ samples'[name].totalTimes
              = Append(timesOf(samples, name).totalTimes, totalTime)
         /\ samples'[name].selfTimes
              = Append(timesOf(samples, name).selfTimes, selfTime)
         /\ \A other \in (DOMAIN samples) \ {name} :
              samples'[other] = samples[other]
         /\ totalTimesStack' = totalTimesStack
         /\ lastIndex' = lastIndex]_vars

\* an invocation ends in this step and records its sample
recordsAtExit == Len(frames') < Len(frames) /\ log'.recorded

\* no step removes, changes or moves a recorded sample
appendOnly ==
  \A name \in DOMAIN samples :
    /\ name \in DOMAIN samples'
    /\ isPrefix(samples[name].totalTimes, samples'[name].totalTimes)
    /\ isPrefix(samples[name].selfTimes, samples'[name].selfTimes)

\* C27 (as stated): the samples of a name are in call order, also for
\* nested invocations of the same name: no invocation records while an
\* invocation of the same name that was called before it is still running
\* and has its sample yet to come.
C27_SamplesInCallOrder ==
  [][recordsAtExit =>
       \A i \in 1..(Len(frames) - 1) : frames[i].name # Top.name]_vars

\* C27 (amended): the samples of a name are in the order in which the
\* invocations ended: an invocation that records appends its own sample at
\* the end of its name's list when it ends, and no sample is ever removed,
\* changed or reordered.
C27_SamplesInCompletionOrder ==
  [][/\ appendOnly
     /\ recordsAtExit =>
          /\ samples'[Top.name].totalTimes
               = Append(timesOf(samples, Top.name).totalTimes,
                        Minus(log'.end, log'.start))
          /\ Len(samples'[Top.name].selfTimes)
               = Len(timesOf(samples, Top.name).selfTimes) + 1]_vars

\* a recursive invocation of "outer" ended before the one enclosing it:
\* the first sample (selfTime MaxTime) is the inner invocation's, the second
\* (selfTime 0, all its time spent in the inner one) the enclosing one's
C27_Witness ==
  /\ frames = <<>>
  /\ calls = 2
  /\ DOMAIN samples = {"outer"}
  /\ samples["outer"].totalTimes = <<MaxTime, MaxTime>>
  /\ samples["outer"].selfTimes = <<MaxTime, 0>>
  /\ log.name = "outer" /\ log.recorded /\ log.kids = MaxTime

\* C30: getReport changes neither the sample store nor the nesting stack,
\* and a getReport that follows another with no wrapped invocation and no
\* addSample in between ends as the first did, with an equal report.
C30_GetReportHasNoEffect ==
  [][reports' = reports + 1 =>
       /\ samples' = samples
       /\ totalTimesStack' = totalTimesStack
       /\ lastIndex' = lastIndex
       /\ lastReport'.repeated =>
            (lastReport'.outcome = lastReport.outcome
             /\ lastReport'.value = lastReport.value)]_vars

\* two reports in a row over a store that holds samples
C30_Witness ==
  /\ lastReport.repeated
  /\ lastReport.outcome = "report"
  /\ "outer" \in DOMAIN lastReport.value
  /\ lastReport.value["outer"].calls = 2
  /\ samples # <<>>

\* C28: wrapMethod(ownerName, object, methodName) puts into
\* object[methodName] a wrapper other than the original method, around that
\* method and named ownerName + '.' + methodName, and changes no other
\* property of the object; an invocation of the property afterwards records
\* a sample under that name.
C28_WrapMethodReplacesInPlace ==
  [][/\ \A id \in Ids, key \in PropertyNames :
          wrapMethodCall("owner", id, key) =>
            /\ heap'[id].props[key].t = "wrapper"
            /\ heap'[id].props[key] # heap[id].props[key]
            /\ heap'[id].props[key].func = heap[id].props[key]
            /\ heap'[id].props[key].name = "owner" \o "." \o key
            /\ DOMAIN heap'[id].props = DOMAIN heap[id].props
            /\ \A other \in (DOMAIN heap[id].props) \ {key} :
                 heap'[id].props[other] = heap[id].props[other]
     /\ Len(frames') < Len(frames) =>
          sampleCount(samples', Top.name)
            = sampleCount(samples, Top.name) + 1]_vars

\* C39: with the fallback keys() as Profiler.prototype.keys, wrapObject on a
\* callable root, or on an object from which a callable is reached, ends
\* without raising.
C39_FallbackKeysEnumeratesCallables ==
  (walkEnded /\ keysImpl = "keys"
   /\ reachable(heap0, walkRoot) \cap FunctionIds # {}) =>
    walkResult = "returned"

\* the wrappers an invocation of the value runs through before it reaches
\* the original callable; each of them records one sample
RECURSIVE layers(_)
layers(v) == IF v.t = "wrapper" THEN 1 + layers(v.func) ELSE 0

\* C36: a second wrapObject(name, root) on an instrumented root adds no
\* second wrapper layer: afterwards no property holds a wrapper of a
\* wrapper, so an invocation of a member records one sample.
C36_SecondWalkAddsNoLayer ==
  (walks >= 2 /\ walkEnded) =>
    \A id \in Ids : \A key \in DOMAIN heap[id].props :
      layers(heap[id].props[key]) <= 1

\* C31: every wrapper invocation reads the time source twice, once when it
\* starts (the value becomes its start) and once when its callable has
\* ended; nothing else reads it, so n invocations that ended have read 2n
\* timestamps.
C31_TwoReadsPerInvocation ==
  /\ [](NoCallExecuting => clock.reads = 2 * calls)
  /\ [][/\ Len(frames') > Len(frames) =>
            (clock'.reads = clock.reads + 1
             /\ frames'[Len(frames')].start = clock'.now)
        /\ Len(frames') < Len(frames) => clock'.reads = clock.reads + 1
        /\ Len(frames') = Len(frames) => clock' = clock]_vars

\* the sum of the selfTimes recorded under the names
RECURSIVE totalSelf(_, _)
totalSelf(smp, names) ==
  IF names = {} THEN 0
  ELSE LET n == CHOOSE m \in names : TRUE
       IN Plus(total(smp[n].selfTimes), totalSelf(smp, names \ {n}))

\* C34: whenever no wrapped call is executing, the selfTimes recorded over
\* all names add up to totalTimesStack[0], and totalTimesStack[0] is the sum
\* of the totalTimes of the top-level invocations: each of them adds its
\* total time when it ends and nothing else changes the entry.
C34_SelfTimesAddUpToTopLevel ==
  /\ [](NoCallExecuting =>
         totalSelf(samples, DOMAIN samples) = totalTimesStack[1])
  /\ [][IF Len(frames) = 1 /\ frames' = <<>>
        THEN totalTimesStack'[1]
               = Plus(totalTimesStack[1], Minus(clock'.now, Top.start))
        ELSE NoCallExecuting => totalTimesStack'[1] = totalTimesStack[1]]_vars

\* C35: with a time source that never goes back, every recorded sample has
\* 0 <= selfTime <= totalTime.
C35_SelfTimeWithinTotalTime ==
  \A name \in DOMAIN samples :
    \A i \in 1..Len(samples[name].totalTimes) :
      /\ 0 <= samples[name].selfTimes[i]
      /\ samples[name].selfTimes[i] <= samples[name].totalTimes[i]

\* C38: a wrapper reads the time source that was installed on the profiler
\* when wrapFunction made it: the source is fixed at creation, replacing
\* profiler.getTime changes it for no existing wrapper, and each read of an
\* invocation, at its start and at its end, goes to that source.
C38_TimeSourceFixedAtCreation ==
  [][/\ \A name \in wrapped' \ wrapped : captured'[name] = getTime
     /\ \A name \in wrapped : captured'[name] = captured[name]
     /\ Len(frames') > Len(frames) =>
          (clock'.reads = clock.reads + 1
           /\ log'.source = captured[frames'[Len(frames')].name])
     /\ (Len(frames') < Len(frames) /\ clock'.reads = clock.reads + 1) =>
          log'.source = captured[Top.name]]_vars

\* "outer" was made under Date.now and "inner" under mockTime; mockTime is
\* installed, and the invocation of "outer" that just returned read Date.now
C38_Witness ==
  /\ getTime = "mockTime"
  /\ DOMAIN captured = {"outer", "inner"}
  /\ captured["outer"] = "Date.now"
  /\ captured["inner"] = "mockTime"
  /\ log.kind = "return" /\ log.name = "outer" /\ log.source = "Date.now"

\* C37: two Profiler instances are independent: a step of a wrapper of the
\* second profiler changes neither the samples nor the nesting stack of the
\* first, and the other way round; the self time an invocation of the first
\* profiler records is its total time less what its own stack entry holds,
\* to which only the first profiler's wrappers add.
C37_ProfilersAreIndependent ==
  [][/\ otherProfiler' # otherProfiler =>
          (samples' = samples /\ totalTimesStack' = totalTimesStack
           /\ lastIndex' = lastIndex /\ frames' = frames)
     /\ frames' # frames => otherProfiler' = otherProfiler
     /\ (Len(frames') < Len(frames) /\ log'.recorded) =>
          LET times == samples'[Top.name]
              time == Minus(log'.end, log'.start)
          IN /\ times.totalTimes[Len(times.totalTimes)] = time
             /\ times.selfTimes[Len(times.selfTimes)]
                  = Minus(time, totalTimesStack[Len(totalTimesStack)])]_vars

\* one invocation of the first profiler's "outer" took MaxTime, all of it
\* inside a call wrapped by the second profiler, which recorded it as its
\* own "inner"; the first profiler's self time is still MaxTime
C37_Witness ==
  /\ frames = <<>> /\ otherProfiler.frames = <<>>
  /\ calls = 2
  /\ DOMAIN samples = {"outer"}
  /\ samples["outer"].totalTimes = <<MaxTime>>
  /\ samples["outer"].selfTimes = <<MaxTime>>
  /\ DOMAIN otherProfiler.samples = {"inner"}
  /\ otherProfiler.samples["inner"].totalTimes = <<MaxTime>>
  /\ otherProfiler.inside = "outer"
  /\ totalTimesStack = <<MaxTime>>

\* C32: keys(object) raises a TypeError for null, undefined, a boolean, a
\* number and a string, and for an object returns the names of its own
\* enumerable properties in enumeration order, without those it inherits.
C32_KeysOfObjectsOnly ==
  applied.fn = "keys" =>
    IF applied.input.t = "ref"
    THEN /\ applied.outcome = "value"
         /\ applied.value = heap[applied.input.id].keys
    ELSE applied.outcome = TypeError

\* C33: construct(constructor, args) invokes constructor once, as a
\* constructor and with the given args, and returns the instance that
\* invocation ran on.
C33_ConstructInvokesOnce ==
  applied.fn = "construct" =>
    LET made == applied.value
    IN /\ Len(made.invocations) = 1
       /\ made.invocations[1].mode = "new"
       /\ made.invocations[1].args = applied.input.args
       /\ made.returned = made.invocations[1].this

====
